---- MODULE Spec2Model ----
(***************************************************************************)
(* Model of the wardrobe store of src/main.py: the durable file            *)
(* wardrobe_db.json, the asyncio handlers save_item, remove_item,          *)
(* show_wardrobe, handle_reference and generate_look, and the helpers      *)
(* load_db / save_db they share.                                           *)
(*                                                                         *)
(* Scheduling.  The handlers are coroutines of one asyncio event loop: a   *)
(* handler runs without interruption between two awaits that really        *)
(* suspend (network calls of the Telegram client).  The variable `running` *)
(* holds the handler that owns the thread inside such a synchronous span;  *)
(* while it is non-zero only that handler steps, or the process dies.      *)
(* save_db is split at its two system calls (open(..., 'w'), which         *)
(* truncates, and the write of the dump) so that a crash or an I/O error   *)
(* between them leaves the file as the code leaves it.                     *)
(*                                                                         *)
(* Numbers.  Embeddings are float16 arrays.  The vectors drawn here have   *)
(* small integer components and an integer norm, for which every float16   *)
(* operation of the code (dot, norm, product, correctly rounded division)  *)
(* is exact or is the rounding of an exact rational, so that comparing the *)
(* rationals is comparing the floats.                                      *)
(***************************************************************************)
EXTENDS Integers, Sequences, FiniteSets, TLC

\* ------------------------------------------------------------------ bounds
MaxId == 2          \* photo file ids are 1..MaxId
MaxItems == 2       \* an add is only dispatched onto a store of fewer items
MaxHandlers == 2    \* handler coroutines in flight at once
MaxStore == 4       \* items in a file left by earlier runs

\* --------------------------------------------------------- program constants
TopK == 3           \* similarities[:3]
LookSize == 3       \* min(3, len(db["items"]))
IMG_DIR == "temp_images"

Ids == 1..MaxId
Handlers == 1..MaxHandlers

\* Outputs of the encoder (model.encode) for the texts queried: opaque to the
\* program, which never validates them.  Two dimensions, the zero vector,
\* opposite directions.
Vectors == { <<1, 0>>, <<-1, 0>>, <<0, 0>>, <<1>> }

\* The encoder is a frozen network in eval mode: the photo with a given file
\* id always encodes to the same vector.  The photos sent are these.
Photos == << <<1, 0>>, <<1>>, <<-1, 0>>, <<0, 0>> >>

encode(id) == Photos[((id - 1) % Len(Photos)) + 1]

\* ------------------------------------------------------------- float16
\* astype(np.float16) / np.array(..., dtype=np.float16) on an integer:
\* integers up to 2048 in magnitude are representable; above, the spacing
\* doubles with every binade and the value rounds to the nearest multiple
\* (ties to even); above the largest finite value the result is infinite.
F16Max == 65504
Inf == F16Max + 1

RECURSIVE Spacing(_, _)
Spacing(a, step) == IF a < 2048 * step THEN step ELSE Spacing(a, 2 * step)

RoundTo(a, step) ==
    LET q == a \div step
        r == a % step
    IN  IF 2 * r < step THEN q * step
        ELSE IF 2 * r > step THEN (q + 1) * step
        ELSE IF q % 2 = 0 THEN q * step ELSE (q + 1) * step

Abs(x) == IF x < 0 THEN -x ELSE x

Float16(x) ==
    LET a == Abs(x)
        r == RoundTo(a, Spacing(a, 1))
        m == IF r > F16Max THEN Inf ELSE r
    IN  IF x < 0 THEN -m ELSE m

AsFloat16(v) == [i \in 1..Len(v) |-> Float16(v[i])]

\* item_copy["embedding"].tolist(): float16 -> Python float, exact.
ToList(v) == [i \in 1..Len(v) |-> v[i]]

\* ------------------------------------------------------------ the file
\* wardrobe_db.json: absent, a complete dump of the items, a dump cut short
\* after a prefix of the items (zero length right after open(..., 'w')),
\* or bytes that are not JSON at all.
Missing == [kind |-> "missing", items |-> <<>>]
Garbage == [kind |-> "garbage", items |-> <<>>]
Json(items) == [kind |-> "json", items |-> items]
Torn(items) == [kind |-> "torn", items |-> items]

Unparseable(f) == f.kind \in {"garbage", "torn"}

\* load_db: the items of a file that exists and parses, with the embeddings
\* converted to float16; {"items": []} when the file is absent and also,
\* the exception being logged and dropped, when it does not parse.
load_db(f) ==
    IF f.kind = "json"
    THEN [i \in 1..Len(f.items) |->
            [f.items[i] EXCEPT !.embedding = AsFloat16(f.items[i].embedding)]]
    ELSE <<>>

\* Mutant of db_copy: the loop misses the first item.
db_copy_skip_first(items) ==
    [i \in 1..(Len(items) - 1) |->
        [items[i + 1] EXCEPT !.embedding = ToList(items[i + 1].embedding)]]

\* save_db builds db_copy: every item with its embedding as a list.
db_copy(items) ==
    [i \in 1..Len(items) |->
        [items[i] EXCEPT !.embedding = ToList(items[i].embedding)]]

\* Mutant of save_db: the items are dumped last first.
save_db_reversed(items) ==
    Json([i \in 1..Len(items) |-> db_copy(items)[Len(items) + 1 - i]])

\* The file a save_db that runs to its end leaves: the dump of db_copy.
save_db(items) == Json(db_copy(items))

\* The record save_item appends.
NewItem(id, emb) ==
    [id |-> id, file_path |-> <<IMG_DIR, id>>, embedding |-> emb,
     type |-> "clothes"]

SeqIds(items) == [i \in 1..Len(items) |-> items[i].id]
Range(s) == {s[i] : i \in 1..Len(s)}
HasId(items, id) == \E i \in 1..Len(items) : items[i].id = id

RECURSIVE remove_by_id(_, _)

\* Mutant of remove_by_id: list.remove, which takes out the first match only.
remove_by_id_first(items, id) ==
    IF \A i \in 1..Len(items) : items[i].id # id THEN items
    ELSE LET k == CHOOSE i \in 1..Len(items) :
                     /\ items[i].id = id
                     /\ \A j \in 1..(i - 1) : items[j].id # id
         IN  SubSeq(items, 1, k - 1) \o SubSeq(items, k + 1, Len(items))

\* [item for item in db["items"] if item["id"] != item_id]
remove_by_id(items, id) ==
    IF items = <<>> THEN <<>>
    ELSE IF Head(items).id # id
         THEN <<Head(items)>> \o remove_by_id(Tail(items), id)
         ELSE remove_by_id(Tail(items), id)

RECURSIVE WithoutId(_, _)
WithoutId(ids, id) ==
    IF ids = <<>> THEN <<>>
    ELSE IF Head(ids) # id THEN <<Head(ids)>> \o WithoutId(Tail(ids), id)
         ELSE WithoutId(Tail(ids), id)

\* ------------------------------------------------------------ ranking
\* A similarity is the float16 quotient dot / (norm * norm); den = 0 is the
\* quotient 0/0 numpy evaluates to nan (a warning, no exception).
RECURSIVE DotFrom(_, _, _)
DotFrom(q, v, i) ==
    IF i > Len(q) THEN 0 ELSE q[i] * v[i] + DotFrom(q, v, i + 1)

Dot(q, v) == Float16(DotFrom(q, v, 1))

ISqrt(n) == CHOOSE r \in 0..n : r * r <= n /\ n < (r + 1) * (r + 1)

Norm(v) == Float16(ISqrt(DotFrom(v, v, 1)))

Sim(q, v) == [num |-> Dot(q, v), den |-> Float16(Norm(q) * Norm(v))]

IsNaN(s) == s.den = 0

\* x < y on floats: false as soon as one side is nan.
ISLT(x, y) ==
    /\ ~IsNaN(x.sim)
    /\ ~IsNaN(y.sim)
    /\ x.sim.num * y.sim.den < y.sim.num * x.sim.den

\* np.dot raises ValueError when the shapes differ.
ShapeError(q, items) == \E i \in 1..Len(items) : Len(items[i].embedding) # Len(q)

\* similarities: one (sim, item) pair per item, in collection order.
similarities(q, items) ==
    [i \in 1..Len(items) |->
        [sim |-> Sim(q, items[i].embedding), item |-> items[i]]]

Reverse(s) == [i \in 1..Len(s) |-> s[Len(s) + 1 - i]]

\* list.sort of CPython on fewer than 64 elements: count the run the list
\* starts with (strictly descending runs are reversed in place), then insert
\* each later element by binary search.  Every comparison is ISLT.
RECURSIVE RunDesc(_, _)
RunDesc(s, n) ==
    IF n < Len(s) /\ ISLT(s[n + 1], s[n]) THEN RunDesc(s, n + 1) ELSE n

RECURSIVE RunAsc(_, _)
RunAsc(s, n) ==
    IF n < Len(s) /\ ~ISLT(s[n + 1], s[n]) THEN RunAsc(s, n + 1) ELSE n

Descending(s) == ISLT(s[2], s[1])

count_run(s) == IF Descending(s) THEN RunDesc(s, 2) ELSE RunAsc(s, 2)

ReversePrefix(s, n) ==
    [i \in 1..Len(s) |-> IF i <= n THEN s[n + 1 - i] ELSE s[i]]

RECURSIVE BinSearch(_, _, _, _)
BinSearch(s, pivot, l, r) ==
    IF l >= r THEN l
    ELSE LET p == l + (r - l) \div 2
         IN  IF ISLT(pivot, s[p]) THEN BinSearch(s, pivot, l, p)
             ELSE BinSearch(s, pivot, p + 1, r)

InsertAt(s, start) ==
    LET l == BinSearch(s, s[start], 1, start)
    IN  [i \in 1..Len(s) |->
            IF i < l THEN s[i]
            ELSE IF i = l THEN s[start]
            ELSE IF i <= start THEN s[i - 1]
            ELSE s[i]]

RECURSIVE binarysort(_, _)
binarysort(s, start) ==
    IF start > Len(s) THEN s ELSE binarysort(InsertAt(s, start), start + 1)

\* similarities.sort(reverse=True, key=lambda x: x[0]): the list is reversed,
\* sorted ascending by the stable sort, and reversed again.
sort_reverse(s) ==
    IF Len(s) < 2 THEN s
    ELSE LET r == Reverse(s)
             n == count_run(r)
             run == IF Descending(r) THEN ReversePrefix(r, n) ELSE r
         IN  Reverse(binarysort(run, n + 1))

Min(a, b) == IF a < b THEN a ELSE b

\* f"{sim:.2f}": hundredths, rounded half to even, or the text 'nan'.
Format2f(s) ==
    IF IsNaN(s) THEN [nan |-> TRUE, cents |-> 0]
    ELSE LET c == RoundTo(Abs(s.num) * 100, s.den) \div s.den
         IN  [nan |-> FALSE, cents |-> IF s.num < 0 THEN -c ELSE c]

\* The lines of the reply of handle_reference: the ids of similarities[:3]
\* after the sort, each with its formatted similarity.
ranked(q, items) ==
    LET sorted == sort_reverse(similarities(q, items))
    IN  [i \in 1..Min(TopK, Len(sorted)) |->
            [id |-> sorted[i].item.id, sim |-> Format2f(sorted[i].sim)]]

\* ------------------------------------------------------------ the state
VARIABLES
    file,       \* the content of wardrobe_db.json
    pc,         \* per handler: "idle", "download", "saving", "sending"
    arg,        \* per handler: the file id of the photo of a pending save_item
    running,    \* the handler inside load_db .. save_db, or 0
    cur,        \* its locals: the operation, the id, db["items"], save_db's step
    sent,       \* the reply_text call made by the step just taken, if any
    hist        \* history: expected, the ids whose add reported success and
                \* was not followed by a successful remove, in order of
                \* first success; raced, the ids of adds that entered
                \* load_db .. save_db while another add, dispatched before,
                \* was still downloading or had just done the same;
                \* committed, the items of the last save_db that ran to
                \* its end

vars == <<file, pc, arg, running, cur, sent, hist>>

NoCur == [op |-> "none", id |-> 0, items |-> <<>>, old |-> Missing,
          stage |-> "none"]
NoSent == [h |-> 0, op |-> "none", id |-> 0, out |-> [kind |-> "none"]]

Reply(h, op, id, out) == [h |-> h, op |-> op, id |-> id, out |-> out]

Init ==
    /\ file \in {Missing, Garbage}
    /\ pc = [h \in Handlers |-> "idle"]
    /\ arg = [h \in Handlers |-> 0]
    /\ running = 0
    /\ cur = NoCur
    /\ sent = NoSent
    /\ hist = [expected |-> <<>>, raced |-> {}, committed |-> <<>>]

\* Mutant of add_item: the item put into a fresh list instead of the loaded one.
add_item_fresh(db, item) == <<item>>

\* The coroutine of a new update: handlers have no identity of their own, a
\* new one is numbered with the lowest number not in use.
Free(h) == pc[h] = "idle" /\ \A g \in Handlers : g < h => pc[g] # "idle"

\* db["items"].append({...})
add_item(db, item) == Append(db, item)

\* Mutant of loop_free: a coroutine gets to run while another one is
\* between its load_db and the end of its save_db.
loop_free_always == TRUE

\* The event loop runs one coroutine until it awaits something that really
\* suspends.  load_db .. save_db holds no await in save_item and none in
\* remove_item, so no other coroutine takes a step while one is in there.
loop_free == running = 0

\* Mutant of removed: the store saved whether or not an item went away.
removed_always(items, initial_count) == TRUE

\* if len(db["items"]) < initial_count
removed(items, initial_count) == Len(items) < initial_count

\* ------------------------------------------------------------ save_item
\* The handler is dispatched for a photo and suspends in photo.get_file() /
\* file.download_as_bytearray().
StartAdd(h, id) ==
    /\ loop_free
    /\ Free(h)
    /\ pc' = [pc EXCEPT ![h] = "download"]
    /\ arg' = [arg EXCEPT ![h] = id]
    /\ hist' = [hist EXCEPT !.raced = {}]
    /\ sent' = NoSent
    /\ UNCHANGED <<file, running, cur>>

\* The download or the decoding of the image raises: the except branch
\* replies with the error.
DownloadFail(h) ==
    /\ loop_free
    /\ pc[h] = "download"
    /\ pc' = [pc EXCEPT ![h] = "sending"]
    /\ arg' = [arg EXCEPT ![h] = 0]
    /\ sent' = Reply(h, "add", arg[h], [kind |-> "error"])
    /\ UNCHANGED <<file, running, cur, hist>>

\* The download returns: the image is encoded, the embedding converted to
\* float16, the store loaded and the item appended; save_db is entered.
AddBegin(h) ==
    /\ loop_free
    /\ pc[h] = "download"
    /\ Len(load_db(file)) < MaxItems
    /\ LET img_emb == encode(arg[h])
       IN  cur' = [op |-> "add", id |-> arg[h],
                   items |-> add_item(load_db(file),
                                      NewItem(arg[h], AsFloat16(img_emb))),
                   old |-> file, stage |-> "loaded"]
    /\ running' = h
    /\ pc' = [pc EXCEPT ![h] = "saving"]
    /\ arg' = [arg EXCEPT ![h] = 0]
    /\ hist' =
         LET others == {g \in Handlers :
                          g # h /\ pc[g] = "download" /\ arg[g] # arg[h]}
         IN  IF others # {} \/ hist.raced # {}
             THEN [hist EXCEPT !.raced = @ \cup {arg[h]}]
             ELSE hist
    /\ sent' = NoSent
    /\ UNCHANGED file

\* ------------------------------------------------------------ save_db
\* What the handler tells its caller once save_db has returned: save_db
\* returns nothing and raises nothing, so the reply is the success message.
Told(h) ==
    IF cur.op = "add"
    THEN Reply(h, "add", cur.id, [kind |-> "added", count |-> Len(cur.items)])
    ELSE Reply(h, "remove", cur.id, [kind |-> "removed"])

Expect(e) ==
    IF cur.op = "add"
    THEN IF cur.id \in Range(e) THEN e ELSE Append(e, cur.id)
    ELSE WithoutId(e, cur.id)

\* Mutant of Finish: the handler returns from save_db and ends without a
\* reply.
Finish_silent(h) ==
    /\ sent' = NoSent
    /\ pc' = [pc EXCEPT ![h] = "idle"]
    /\ running' = 0
    /\ cur' = NoCur
    /\ hist' = hist
    /\ UNCHANGED arg

Finish(h) ==
    /\ sent' = Told(h)
    /\ pc' = [pc EXCEPT ![h] = "sending"]
    /\ running' = 0
    /\ cur' = NoCur
    /\ hist' = [hist EXCEPT !.expected = Expect(@),
                             !.committed = IF file' = save_db(cur.items)
                                           THEN cur.items ELSE @]
    /\ UNCHANGED arg

\* open(DB_FILE, 'w') creates the file or truncates it to zero length.
SaveOpen(h) ==
    /\ running = h
    /\ cur.stage = "loaded"
    /\ file' = Torn(<<>>)
    /\ cur' = [cur EXCEPT !.stage = "opened"]
    /\ sent' = NoSent
    /\ UNCHANGED <<pc, arg, running, hist>>

\* json.dump writes db_copy and the file is closed; the handler goes on to
\* its reply.
SaveDump(h) ==
    /\ running = h
    /\ cur.stage = "opened"
    /\ file' = save_db(cur.items)
    /\ Finish(h)

\* open raises (no permission, no space for the directory entry): the file
\* is as it was, the exception is logged inside save_db.
SaveOpenFail(h) ==
    /\ running = h
    /\ cur.stage = "loaded"
    /\ file' = file
    /\ Finish(h)

\* The write raises part way (disk full, I/O error): a prefix of the dump
\* is in the file, the exception is logged inside save_db.
SaveDumpFail(h) ==
    /\ running = h
    /\ cur.stage = "opened"
    /\ \E n \in 0..(IF cur.items = <<>> THEN 0 ELSE Len(cur.items) - 1) :
          file' = Torn(SubSeq(db_copy(cur.items), 1, n))
    /\ Finish(h)

\* ------------------------------------------------------------ remove_item
Remove(h, id) ==
    /\ loop_free
    /\ Free(h)
    /\ LET db == load_db(file)
           items == remove_by_id(db, id)
       IN  IF removed(items, Len(db))
           THEN /\ cur' = [op |-> "remove", id |-> id, items |-> items,
                           old |-> file, stage |-> "loaded"]
                /\ running' = h
                /\ pc' = [pc EXCEPT ![h] = "saving"]
                /\ sent' = NoSent
           ELSE /\ sent' = Reply(h, "remove", id, [kind |-> "notfound"])
                /\ pc' = [pc EXCEPT ![h] = "sending"]
                /\ UNCHANGED <<cur, running>>
    /\ hist' = [hist EXCEPT !.raced = {}]
    /\ UNCHANGED <<file, arg>>

\* ------------------------------------------------------------ show_wardrobe
\* Mutant of List: the handler saves what it loaded before it replies.
List_saving(h) ==
    /\ loop_free
    /\ Free(h)
    /\ LET db == load_db(file)
       IN  /\ sent' = Reply(h, "list", 0,
                            IF db = <<>> THEN [kind |-> "empty"]
                            ELSE [kind |-> "list", ids |-> SeqIds(db)])
           /\ file' = save_db(db)
    /\ pc' = [pc EXCEPT ![h] = "sending"]
    /\ UNCHANGED <<arg, running, cur, hist>>

List(h) ==
    /\ loop_free
    /\ Free(h)
    /\ LET db == load_db(file)
       IN  sent' = Reply(h, "list", 0,
                         IF db = <<>> THEN [kind |-> "empty"]
                         ELSE [kind |-> "list", ids |-> SeqIds(db)])
    /\ pc' = [pc EXCEPT ![h] = "sending"]
    /\ UNCHANGED <<file, arg, running, cur, hist>>

\* ------------------------------------------------------------ handle_reference
\* Mutant of query_reply: the test of l.209 left out.
query_reply_unguarded(q, db) ==
    IF ShapeError(q, db) THEN [kind |-> "error"]
    ELSE [kind |-> "ranked", query |-> q, lines |-> ranked(q, db)]

\* The reply for the query vector q on the loaded items: 'no items yet' for
\* an empty store (l.209-211), the error of the except branch when np.dot
\* raises, 'nothing suitable found' when the top list is empty (l.230-232),
\* the ranked lines otherwise.
query_reply(q, db) ==
    IF db = <<>> THEN [kind |-> "empty"]
    ELSE IF ShapeError(q, db) THEN [kind |-> "error"]
    ELSE IF ranked(q, db) = <<>> THEN [kind |-> "nomatch"]
    ELSE [kind |-> "ranked", query |-> q, lines |-> ranked(q, db)]

Query(h) ==
    /\ loop_free
    /\ Free(h)
    /\ \E query_embedding \in Vectors :
         LET db == load_db(file)
             q == AsFloat16(query_embedding)
         IN  sent' = Reply(h, "query", 0, query_reply(q, db))
    /\ pc' = [pc EXCEPT ![h] = "sending"]
    /\ UNCHANGED <<file, arg, running, cur, hist>>

\* ------------------------------------------------------------ generate_look
\* np.random.choice(items, size=min(3, len), replace=False): positions of
\* the collection, none twice, in any order.
\* Mutant of Choices: replace=True.
Choices_replace(n) == [1..Min(LookSize, n) -> 1..n]

Choices(n) ==
    {c \in [1..Min(LookSize, n) -> 1..n] :
        \A i, j \in DOMAIN c : i # j => c[i] # c[j]}

Look(h) ==
    /\ loop_free
    /\ Free(h)
    /\ LET db == load_db(file)
       IN  IF db = <<>>
           THEN sent' = Reply(h, "look", 0, [kind |-> "empty"])
           ELSE \E c \in Choices(Len(db)) :
                   sent' = Reply(h, "look", 0,
                                 [kind |-> "look", picks |-> c,
                                  ids |-> [i \in DOMAIN c |-> db[c[i]].id]])
    /\ pc' = [pc EXCEPT ![h] = "sending"]
    /\ UNCHANGED <<file, arg, running, cur, hist>>

\* ------------------------------------------------------------ the rest
\* reply_text returns and the handler ends.
Deliver(h) ==
    /\ loop_free
    /\ pc[h] = "sending"
    /\ pc' = [pc EXCEPT ![h] = "idle"]
    /\ sent' = NoSent
    /\ UNCHANGED <<file, arg, running, cur, hist>>

\* The process is killed and started again: the coroutines and their
\* locals are gone, the file is whatever it was at that instant.
Crash ==
    /\ \E h \in Handlers : pc[h] # "idle"
    /\ pc' = [h \in Handlers |-> "idle"]
    /\ arg' = [h \in Handlers |-> 0]
    /\ running' = 0
    /\ cur' = NoCur
    /\ sent' = NoSent
    /\ hist' = [hist EXCEPT !.raced = {}]
    /\ UNCHANGED file

\* Storage that neither fails nor loses the process.
NextReliable ==
    \/ \E h \in Handlers, id \in Ids : StartAdd(h, id)
    \/ \E h \in Handlers : DownloadFail(h)
    \/ \E h \in Handlers : AddBegin(h)
    \/ \E h \in Handlers : SaveOpen(h)
    \/ \E h \in Handlers : SaveDump(h)
    \/ \E h \in Handlers, id \in Ids : Remove(h, id)
    \/ \E h \in Handlers : List(h)
    \/ \E h \in Handlers : Query(h)
    \/ \E h \in Handlers : Look(h)
    \/ \E h \in Handlers : Deliver(h)

Next ==
    \/ NextReliable
    \/ \E h \in Handlers : SaveOpenFail(h)
    \/ \E h \in Handlers : SaveDumpFail(h)
    \/ Crash

Spec == Init /\ [][Next]_vars

\* The same storage, the run beginning with no file (a first start).
InitCold == Init /\ file = Missing

SpecReliable == Init /\ [][NextReliable]_vars

SpecCold == InitCold /\ [][NextReliable]_vars

\* The steps by which a handler that was dispatched goes on: its download
\* ends one way or the other, save_db does its next step, reply_text
\* returns.
Proceed(h) ==
    \/ DownloadFail(h)
    \/ AddBegin(h)
    \/ SaveOpen(h)
    \/ SaveDump(h)
    \/ Deliver(h)

\* The event loop keeps its ready coroutines in a queue and runs each in
\* turn, and the awaited network calls end (they return or they time out):
\* a handler that can go on again and again does go on.
\* Which photo an update carries decides no guard of a handler beyond
\* whether its id is in the store: two ids give every step there is.
TwoPhotos == {id \in Ids : id <= 2}

NextFair ==
    \/ \E h \in Handlers, id \in TwoPhotos : StartAdd(h, id)
    \/ \E h \in Handlers : DownloadFail(h)
    \/ \E h \in Handlers : AddBegin(h)
    \/ \E h \in Handlers : SaveOpen(h)
    \/ \E h \in Handlers : SaveDump(h)
    \/ \E h \in Handlers, id \in TwoPhotos : Remove(h, id)
    \/ \E h \in Handlers : List(h)
    \/ \E h \in Handlers : Query(h)
    \/ \E h \in Handlers : Look(h)
    \/ \E h \in Handlers : Deliver(h)

SpecFair ==
    /\ Init
    /\ [][NextFair]_vars
    /\ \A h \in Handlers : SF_vars(Proceed(h))

\* A start on a file earlier runs left behind: any sequence of up to
\* MaxStore saved items (save_item never checks an id against the stored
\* ones, so ids may repeat), then looks only.  A look reads nothing of an
\* item but its id: two ids give stores with and without repeated ids.
Stores ==
    UNION {[1..n -> {NewItem(id, AsFloat16(encode(id))) : id \in TwoPhotos}] :
              n \in 0..MaxStore}

InitSample ==
    /\ file \in {save_db(items) : items \in Stores}
    /\ pc = [h \in Handlers |-> "idle"]
    /\ arg = [h \in Handlers |-> 0]
    /\ running = 0
    /\ cur = NoCur
    /\ sent = NoSent
    /\ hist = [expected |-> <<>>, raced |-> {}, committed |-> load_db(file)]

NextSample == \E h \in Handlers : Look(h) \/ Deliver(h)

SpecSample == InitSample /\ [][NextSample]_vars

\* ============================================================ properties
\* The steps the properties speak about, read off two successive states.
ListStep(h) ==
    pc[h] = "idle" /\ pc'[h] = "sending" /\ sent'.h = h /\ sent'.op = "list"

QueryStep(h) ==
    pc[h] = "idle" /\ pc'[h] = "sending" /\ sent'.h = h /\ sent'.op = "query"

\* remove_item runs for id: it either replies at once or enters save_db.
RemoveStep(h, id) ==
    /\ running = 0
    /\ pc[h] = "idle"
    /\ \/ pc'[h] = "sending" /\ sent'.h = h /\ sent'.op = "remove"
          /\ sent'.id = id
       \/ pc'[h] = "saving" /\ cur'.op = "remove" /\ cur'.id = id

\* save_db has returned to a mutating handler, which replies.
Returns(h) == running = h /\ pc'[h] = "sending"

Listed(out) == IF out.kind = "list" THEN out.ids ELSE <<>>

\* C1: on storage that does not fail, a listing contains the id of every
\* add that has completed with success and was not removed since, whatever
\* the interleaving of the add handlers: no add is lost to another's save.
NoLostAdd ==
    [][\A h \in Handlers :
          ListStep(h) => Range(hist.expected) \subseteq Range(Listed(sent'.out))]_vars

\* C1 witness: two or more adds with distinct ids were in flight together,
\* all have saved, and a listing made afterwards shows all of them.
RacedAddsListed ==
    /\ Cardinality(hist.raced) >= 2
    /\ running = 0
    /\ sent.op = "list"
    /\ hist.raced \subseteq Range(Listed(sent.out))

\* C2: started without a file, a listing is exactly the ids added and not
\* removed since, in the order of first insertion, none of them twice.
ListIsAddedMinusRemoved ==
    [][\A h \in Handlers :
          ListStep(h) => Listed(sent'.out) = hist.expected]_vars

\* C3: an add of an id the store already holds leaves the file as it was
\* and replies with an error.
DuplicateAddRejected ==
    [][\A h \in Handlers :
          (Returns(h) /\ cur.op = "add" /\ HasId(load_db(cur.old), cur.id))
          => (file' = cur.old /\ sent'.out.kind = "error")]_vars

\* The durable content as the operation in progress, if any, found it.
Found == IF running = 0 THEN file ELSE cur.old

\* C4: a file that exists and does not parse is never written over.
CorruptNeverOverwritten ==
    [][Unparseable(Found) => file' = Found]_vars

\* C5: during a save and when it ends, completed, failed or cut by a crash,
\* the file holds the complete previous content or the complete new one.
OldOrNew(f, c) == f \in {c.old, Json(db_copy(c.items))}

AtomicReplace ==
    [][/\ running' # 0 => OldOrNew(file', cur')
       /\ (running # 0 /\ running' = 0) => OldOrNew(file', cur)]_vars

\* C6: when add or remove replies success the file holds the updated
\* collection; a write that failed is replied as an error.
AckImpliesDurable ==
    [][\A h \in Handlers :
          Returns(h) =>
            /\ sent'.out.kind \in {"added", "removed"}
                  => file' = Json(db_copy(cur.items))
            /\ file' # Json(db_copy(cur.items)) => sent'.out.kind = "error"]_vars

\* C7: a remove of an id the store does not hold replies 'not found' at
\* once, enters no save and leaves the file as it is.
RemoveAbsentIsNoop ==
    [][\A h \in Handlers, id \in Ids :
          (RemoveStep(h, id) /\ ~HasId(load_db(file), id))
          => /\ pc'[h] = "sending"
             /\ sent'.out.kind = "notfound"
             /\ running' = 0
             /\ cur' = cur
             /\ file' = file]_vars

\* C7 witness: 'not found' has been replied for an id absent from a store
\* that holds something else.
RemoveAbsentReplied ==
    /\ sent.op = "remove"
    /\ sent.out.kind = "notfound"
    /\ file.kind = "json"
    /\ file.items # <<>>
    /\ ~HasId(load_db(file), sent.id)

\* score(a) >= score(b); an undefined score is not >= anything.
GE(a, b) == ~IsNaN(a) /\ ~IsNaN(b) /\ a.num * b.den >= b.num * a.den
SameScore(a, b) == GE(a, b) /\ GE(b, a)

\* lines is the top-k of db for q: some choice of min(k, N) distinct
\* positions, in descending score, equal scores in collection order, no
\* position left out scoring higher than one chosen.
IsTopK(lines, q, db) ==
    /\ Len(lines) = Min(TopK, Len(db))
    /\ \E pos \in [1..Len(lines) -> 1..Len(db)] :
          LET score(i) == Sim(q, db[pos[i]].embedding)
          IN  /\ \A i, j \in 1..Len(lines) : i # j => pos[i] # pos[j]
              /\ \A i \in 1..Len(lines) :
                    /\ lines[i].id = db[pos[i]].id
                    /\ lines[i].sim = Format2f(score(i))
              /\ \A i, j \in 1..Len(lines) :
                    i < j => /\ GE(score(i), score(j))
                             /\ SameScore(score(i), score(j)) => pos[i] < pos[j]
              /\ \A i \in 1..Len(lines), p \in 1..Len(db) :
                    (\A k \in 1..Len(lines) : pos[k] # p)
                    => GE(score(i), Sim(q, db[p].embedding))

\* C8: a ranked reply is the min(3, N) best items of the collection, best
\* first, equal scores in collection order.
RankedIsTopK ==
    [][\A h \in Handlers :
          (QueryStep(h) /\ sent'.out.kind = "ranked")
          => IsTopK(sent'.out.lines, sent'.out.query, load_db(file))]_vars

IsZero(v) == \A i \in 1..Len(v) : v[i] = 0

\* C9: no ranked reply is made from an all-zero query or an all-zero stored
\* embedding, and none shows an undefined score.
DegenerateRejected ==
    [][\A h \in Handlers :
          (QueryStep(h) /\ sent'.out.kind = "ranked")
          => /\ ~IsZero(sent'.out.query)
             /\ \A i \in 1..Len(load_db(file)) :
                   ~IsZero(load_db(file)[i].embedding)
             /\ \A i \in 1..Len(sent'.out.lines) :
                   ~sent'.out.lines[i].sim.nan]_vars

\* C10: all the embeddings in the file have one dimension.
OneDimension ==
    \A i, j \in 1..Len(file.items) :
        Len(file.items[i].embedding) = Len(file.items[j].embedding)

\* C11: a query on a store that loads as no items is answered 'no items',
\* nothing else is; the answer is neither the error reply nor a ranked
\* list, and no ranked list is ever empty.
EmptyStoreReported ==
    [][\A h \in Handlers :
          QueryStep(h) =>
            /\ load_db(file) = <<>> <=> sent'.out.kind = "empty"
            /\ sent'.out.kind \in {"empty", "error", "ranked"}
            /\ sent'.out.kind = "ranked" => sent'.out.lines # <<>>]_vars

\* C11 witness: 'no items' has been replied to a query on an empty store
\* whose file exists.
EmptyQueryReplied ==
    /\ sent.op = "query"
    /\ sent.out.kind = "empty"
    /\ file = Json(<<>>)

\* The file after save_db(load_db()) with nothing done in between.
RoundTrip(f) == save_db(load_db(f))

LookStep(h) ==
    pc[h] = "idle" /\ pc'[h] = "sending" /\ sent'.h = h /\ sent'.op = "look"

\* C13: a look on a store of N items shows min(3, N) of its records, no
\* record twice, each with its own id; with N <= 3 it shows every record
\* exactly once.
SampleWithoutRepeat ==
    [][\A h \in Handlers :
          LookStep(h) =>
            LET db == load_db(file)
                out == sent'.out
            IN  IF db = <<>> THEN out.kind = "empty"
                ELSE /\ out.kind = "look"
                     /\ Len(out.picks) = Min(LookSize, Len(db))
                     /\ Len(out.ids) = Len(out.picks)
                     /\ \A i \in 1..Len(out.picks) :
                           /\ out.picks[i] \in 1..Len(db)
                           /\ out.ids[i] = db[out.picks[i]].id
                           /\ \A j \in 1..Len(out.picks) :
                                 out.picks[i] = out.picks[j] => i = j
                     /\ LookSize >= Len(db)
                           => Range(out.picks) = 1..Len(db)]_vars

\* C13 witness: a look on a store of two records has shown both, the
\* second one first.
WholeStoreShown ==
    /\ sent.op = "look"
    /\ Len(load_db(file)) = 2
    /\ sent.out.kind = "look"
    /\ sent.out.picks = <<2, 1>>

\* C14: while the file does not exist, a list, a query and a look reply
\* 'no items' and a remove replies 'not found', none of them an error and
\* none creating the file; an add that found no file replies success and
\* leaves a file holding exactly its one item.
MissingFileIsEmptyStore ==
    [][\A h \in Handlers :
          /\ (file = Missing /\ (ListStep(h) \/ QueryStep(h) \/ LookStep(h)))
                => sent'.out.kind = "empty" /\ file' = Missing
          /\ \A id \in Ids :
                (file = Missing /\ RemoveStep(h, id))
                => /\ pc'[h] = "sending"
                   /\ sent'.out.kind = "notfound"
                   /\ file' = Missing
          /\ (Returns(h) /\ cur.op = "add" /\ cur.old = Missing)
                => /\ sent'.out = [kind |-> "added", count |-> 1]
                   /\ file'.kind = "json"
                   /\ Len(file'.items) = 1
                   /\ file'.items[1].id = cur.id
                   /\ file'.items[1].embedding = AsFloat16(encode(cur.id))]_vars

\* C14 witness: a remove has been answered 'not found' and there is still
\* no file.
RemoveOnMissingReplied ==
    /\ file = Missing
    /\ sent.op = "remove"
    /\ sent.out.kind = "notfound"

\* The items a mutating handler saves, from the items it loaded.
Mutated(c) ==
    IF c.op = "add"
    THEN Append(load_db(c.old), NewItem(c.id, AsFloat16(encode(c.id))))
    ELSE SelectSeq(load_db(c.old), LAMBDA item : item.id # c.id)

\* C15: at most one handler is between its load_db and the end of its
\* save_db; while it is there the file is the one it loaded, or the one it
\* has just opened for writing, and what it saves is its own change applied
\* to what it loaded: the mutations take effect one after the other.
OneMutatorAtATime ==
    /\ Cardinality({h \in Handlers : pc[h] = "saving"}) <= 1
    /\ \A h \in Handlers :
          pc[h] = "saving" =>
            /\ running = h
            /\ cur.items = Mutated(cur)
            /\ \/ cur.stage = "loaded" /\ file = cur.old
               \/ cur.stage = "opened" /\ file = Torn(<<>>)

\* C15 witness: an add is inside save_db, having loaded a store that is not
\* empty, while another add handler waits for its download.
MutatorsOverlap ==
    /\ \E h, g \in Handlers :
          /\ pc[h] = "saving"
          /\ pc[g] = "download"
    /\ cur.op = "add"
    /\ cur.stage = "opened"
    /\ load_db(cur.old) # <<>>

\* C16: on storage that does not fail, a list, a query or a look never
\* finds a file cut short: what it loads is the collection the last
\* completed save left (the empty one before the first), and what it
\* replies is computed from that collection alone.
ReadsCommitted ==
    [][\A h \in Handlers :
          (ListStep(h) \/ QueryStep(h) \/ LookStep(h)) =>
            /\ file.kind # "torn"
            /\ load_db(file) = hist.committed
            /\ ListStep(h) => Listed(sent'.out) = SeqIds(hist.committed)
            /\ QueryStep(h) =>
                  \E q \in Vectors : sent'.out = query_reply(q, hist.committed)
            /\ LookStep(h) =>
                  IF hist.committed = <<>> THEN sent'.out.kind = "empty"
                  ELSE /\ sent'.out.kind = "look"
                       /\ \A i \in 1..Len(sent'.out.ids) :
                             sent'.out.ids[i]
                                = hist.committed[sent'.out.picks[i]].id]_vars

\* C16 witness: a listing has shown the one item saved so far while an add
\* of another photo is in its download.
ListedDuringAdd ==
    /\ sent.op = "list"
    /\ sent.out.kind = "list"
    /\ Len(hist.committed) = 1
    /\ sent.out.ids = SeqIds(hist.committed)
    /\ \E g \in Handlers : pc[g] = "download" /\ arg[g] # sent.out.ids[1]

\* C17: with the handlers scheduled fairly, every handler that was
\* dispatched comes to its reply and the reply is delivered: a handler in
\* its download or inside save_db gets to reply_text, a handler in
\* reply_text returns from it, and no handler ends from anywhere else than
\* reply_text.
EveryHandlerReports ==
    /\ \A h \in Handlers :
          (pc[h] \in {"download", "saving"}) ~> (pc[h] = "sending")
    /\ \A h \in Handlers : (pc[h] = "sending") ~> (pc[h] = "idle")
    /\ [][\A h \in Handlers :
             (pc[h] # "idle" /\ pc'[h] = "idle") => pc[h] = "sending"]_vars
    /\ [][\A h \in Handlers :
             (pc[h] # "sending" /\ pc'[h] = "sending")
             => sent'.h = h /\ sent'.out.kind # "none"]_vars

\* C17 witness: an add has come out of save_db and replies while another
\* handler, dispatched meanwhile, is still in its download.
AddRepliesBesideDownload ==
    /\ sent.op = "add"
    /\ sent.out.kind = "added"
    /\ pc[sent.h] = "sending"
    /\ \E g \in Handlers : pc[g] = "download"

ReadersNeverWrite ==
    [][\A h \in Handlers :
          (ListStep(h) \/ QueryStep(h) \/ LookStep(h)) => file' = file]_vars

\* C19 witness: a query has been answered on a file that does not parse,
\* and the file is still there as it was.
ReadOfUnparseableFile ==
    /\ file = Garbage
    /\ sent.op = "query"
    /\ sent.out.kind = "empty"

====
